---- MODULE Spec2Model ----
(***************************************************************************)
(* htmlstr: Parser.parse / Parser.parse_children (src/htmlstr/core.py).    *)
(*                                                                         *)
(* A DOM node is a record [tag, attributes, text, kids]:                   *)
(*   tag        the tag name as the sequence of its code points (<<>> for  *)
(*              a node without tag), so that len(), startswith(),          *)
(*              str.isdigit() and int() act on characters;                 *)
(*   attributes the attribute dict as a set of <<key, value>> pairs, a     *)
(*              value being <<>> (Python None, a valueless attribute) or   *)
(*              <<s>> (the string s);                                      *)
(*   text       what node.text(strip=True) returns for the node;           *)
(*   kids       what node.iter(include_text=True) yields, in order.        *)
(* An Element is a record with a "type" field naming its dataclass.        *)
(***************************************************************************)
EXTENDS Integers, Sequences, FiniteSets, TLC

VARIABLES html, id, out, calls

vars == <<html, id, out, calls>>

(* ------------------------------ bounds -------------------------------- *)

\* Most nodes below <body> in a document.
MaxNodes == 3

\* Most parse calls made on one Parser instance.
MaxCalls == 2

\* The Parser instances of a run.
Parsers == {1, 2}

(* ------------------------- Python values ------------------------------ *)

PyNone == <<>>

Str(s) == <<s>>

\* Python truthiness of an Optional[str]: None and "" are falsy.
Truthy(v) == v # PyNone /\ v # Str("")

\* key in attributes
HasKey(attributes, key) == \E kv \in attributes : kv[1] = key

\* attributes[key], for a key that is present
Item(attributes, key) == (CHOOSE kv \in attributes : kv[1] = key)[2]

\* attributes.get(key, default)
Get(attributes, key, default) ==
    IF HasKey(attributes, key) THEN Item(attributes, key) ELSE default

(* ----------------------------- tag names ------------------------------ *)

TagText == <<45, 116, 101, 120, 116>>               \* "-text"
TagA == <<97>>                                      \* "a"
TagImg == <<105, 109, 103>>                         \* "img"
TagButton == <<98, 117, 116, 116, 111, 110>>        \* "button"
TagP == <<112>>                                     \* "p"
TagInput == <<105, 110, 112, 117, 116>>             \* "input"
TagSelect == <<115, 101, 108, 101, 99, 116>>        \* "select"
TagOption == <<111, 112, 116, 105, 111, 110>>       \* "option"
TagLabel == <<108, 97, 98, 101, 108>>               \* "label"
TagDetails == <<100, 101, 116, 97, 105, 108, 115>>  \* "details"
TagSummary == <<115, 117, 109, 109, 97, 114, 121>>  \* "summary"

\* The code points str.isdigit() accepts and int() parses (category Nd):
\* ASCII 0-9 and, of the others, ARABIC-INDIC DIGIT ZERO..NINE.
DecimalDigits == (48..57) \cup (1632..1641)

\* Code points str.isdigit() accepts although int() rejects them
\* (Numeric_Type=Digit, category No): SUPERSCRIPT TWO, THREE, ONE.
OtherDigits == {178, 179, 185}

\* c.isdigit() for a one-character string
isdigit(c) == c \in DecimalDigits \cup OtherDigits

\* int(s) for a one-character string s: its value, or ValueError.
int(s) ==
    IF s[1] \in 48..57 THEN [raised |-> FALSE, value |-> s[1] - 48]
    ELSE IF s[1] \in 1632..1641 THEN [raised |-> FALSE, value |-> s[1] - 1632]
    ELSE [raised |-> TRUE, value |-> 0]

\* len(tag) == 2 and tag.startswith("h") and tag[-1].isdigit()
IsHeadingTag(tag) == Len(tag) = 2 /\ tag[1] = 104 /\ isdigit(tag[Len(tag)])

(* --------------------------- the elements ----------------------------- *)

Text(content) == [type |-> "Text", content |-> content]
Anchor(href, inner) == [type |-> "Anchor", href |-> href, inner |-> inner]
Image(src, alt) == [type |-> "Image", src |-> src, alt |-> alt]
Button(i, inner) == [type |-> "Button", id |-> i, inner |-> inner]
Heading(level, inner) == [type |-> "Heading", level |-> level, inner |-> inner]
Paragraph(inner) == [type |-> "Paragraph", inner |-> inner]
TextInput(i, placeholder) == [type |-> "TextInput", id |-> i, placeholder |-> placeholder]
UrlInput(i, placeholder) == [type |-> "UrlInput", id |-> i, placeholder |-> placeholder]
CheckboxInput(i, checked) == [type |-> "CheckboxInput", id |-> i, checked |-> checked]
RadioInput(i, checked) == [type |-> "RadioInput", id |-> i, checked |-> checked]
Label(inner) == [type |-> "Label", inner |-> inner]
Select(inner, multiple) == [type |-> "Select", inner |-> inner, multiple |-> multiple]
Option(text) == [type |-> "Option", text |-> text]
Details(inner) == [type |-> "Details", inner |-> inner]
Summary(inner) == [type |-> "Summary", inner |-> inner]

(* ------------------------------ Parser -------------------------------- *)

\* self.id = id(self): the builtin, which differs from instance to instance.
Parser_init_builtin_id(self) == self

\* Parser.__init__: the counter of a new instance.
Parser_init(self) == 0

\* Parser.fetch_advance_id: the previous value, and the counter advanced.
fetch_advance_id(c) == [p |-> c, id |-> c + 1]

(* parse_children threads [elements, id, raised] through the loop:        *)
(* the list built so far, self.id, and whether an exception is in flight. *)

\* elements.append(e) with self.id left at c
Emit(acc, e, c) == [elements |-> Append(acc.elements, e), id |-> c, raised |-> FALSE]

\* continue (or fall out of the branch) with self.id left at c
Skip(acc, c) == [elements |-> acc.elements, id |-> c, raised |-> FALSE]

\* an exception leaves the loop; self.id keeps what was allocated so far
Raise(acc, c) == [elements |-> acc.elements, id |-> c, raised |-> TRUE]

\* not node.tag or node.tag == "-text"
TextBranch(node, acc) ==
    IF node.text # "" THEN Emit(acc, Text(node.text), acc.id) ELSE Skip(acc, acc.id)

\* if href is None: an empty href is let through
AnchorSkippedNoneOnly(node) == Get(node.attributes, "href", PyNone) = PyNone

\* the href test of the "a" branch: a falsy href skips without recursing
AnchorSkipped(node) == ~Truthy(Get(node.attributes, "href", PyNone))

\* node.tag == "a", href present; children is parse_children(node)
AnchorBranch(node, acc, children) ==
    IF children.raised THEN Raise(acc, children.id)
    ELSE IF children.elements = <<>> THEN Skip(acc, children.id)
    ELSE Emit(acc, Anchor(Get(node.attributes, "href", PyNone), children.elements),
              children.id)

\* node.tag == "img"
ImageBranch(node, acc) ==
    IF ~Truthy(Get(node.attributes, "src", PyNone)) THEN Skip(acc, acc.id)
    ELSE Emit(acc, Image(Get(node.attributes, "src", PyNone),
                         Get(node.attributes, "alt", PyNone)), acc.id)

\* the id fetched before the children are looked at
ButtonBranchIdFirst(node, acc, children) ==
    IF children.raised THEN Raise(acc, children.id)
    ELSE LET f == fetch_advance_id(children.id)
         IN  IF children.elements = <<>> THEN Skip(acc, f.id)
             ELSE Emit(acc, Button(f.p, children.elements), f.id)

\* node.tag == "button": the id is fetched after the children were parsed
ButtonBranch(node, acc, children) ==
    IF children.raised THEN Raise(acc, children.id)
    ELSE IF children.elements = <<>> THEN Skip(acc, children.id)
    ELSE LET f == fetch_advance_id(children.id)
         IN  Emit(acc, Button(f.p, children.elements), f.id)

\* the h<digit> branch: int(node.tag[1:]) runs only for non-empty children
HeadingBranch(node, acc, children) ==
    IF children.raised THEN Raise(acc, children.id)
    ELSE IF children.elements = <<>> THEN Skip(acc, children.id)
    ELSE LET level == int(SubSeq(node.tag, 2, Len(node.tag)))
         IN  IF level.raised THEN Raise(acc, children.id)
             ELSE Emit(acc, Heading(level.value, children.elements), children.id)

\* node.tag == "p"
ParagraphBranch(node, acc, children) ==
    IF children.raised THEN Raise(acc, children.id)
    ELSE IF children.elements = <<>> THEN Skip(acc, children.id)
    ELSE Emit(acc, Paragraph(children.elements), children.id)

\* the checkbox copy of the boolean-attribute rule
CheckboxChecked(attributes) ==
    IF HasKey(attributes, "checked")
    THEN IF Item(attributes, "checked") = Str("true")
            \/ ~Truthy(Item(attributes, "checked"))
         THEN TRUE ELSE FALSE
    ELSE FALSE

\* presence alone decides
RadioCheckedByPresence(attributes) == HasKey(attributes, "checked")

\* the radio copy of the boolean-attribute rule
RadioChecked(attributes) ==
    IF HasKey(attributes, "checked")
    THEN IF Item(attributes, "checked") = Str("true")
            \/ ~Truthy(Item(attributes, "checked"))
         THEN TRUE ELSE FALSE
    ELSE FALSE

\* the select copy of the boolean-attribute rule
SelectMultiple(attributes) ==
    IF HasKey(attributes, "multiple")
    THEN IF Item(attributes, "multiple") = Str("true")
            \/ ~Truthy(Item(attributes, "multiple"))
         THEN TRUE ELSE FALSE
    ELSE FALSE

\* node.tag == "input"
InputBranch(node, acc) ==
    LET type_ == Get(node.attributes, "type", Str("text"))
        f == fetch_advance_id(acc.id)
    IN  IF type_ = Str("text")
        THEN Emit(acc, TextInput(f.p, Get(node.attributes, "placeholder", PyNone)), f.id)
        ELSE IF type_ = Str("url")
        THEN Emit(acc, UrlInput(f.p, Get(node.attributes, "placeholder", PyNone)), f.id)
        ELSE IF type_ = Str("checkbox")
        THEN Emit(acc, CheckboxInput(f.p, CheckboxChecked(node.attributes)), f.id)
        ELSE IF type_ = Str("radio")
        THEN Emit(acc, RadioInput(f.p, RadioChecked(node.attributes)), f.id)
        ELSE Skip(acc, acc.id)

\* node.tag == "select"
SelectBranch(node, acc, children) ==
    IF children.raised THEN Raise(acc, children.id)
    ELSE IF children.elements # <<>>
    THEN Emit(acc, Select(children.elements, SelectMultiple(node.attributes)), children.id)
    ELSE Skip(acc, children.id)

\* node.tag == "option"
OptionBranch(node, acc) ==
    IF node.text # "" THEN Emit(acc, Option(node.text), acc.id) ELSE Skip(acc, acc.id)

\* node.tag == "label"
LabelBranch(node, acc, children) ==
    IF children.raised THEN Raise(acc, children.id)
    ELSE IF children.elements # <<>> THEN Emit(acc, Label(children.elements), children.id)
    ELSE Skip(acc, children.id)

\* node.tag == "details"
DetailsBranch(node, acc, children) ==
    IF children.raised THEN Raise(acc, children.id)
    ELSE IF children.elements # <<>> THEN Emit(acc, Details(children.elements), children.id)
    ELSE Skip(acc, children.id)

\* node.tag == "summary"
SummaryBranch(node, acc, children) ==
    IF children.raised THEN Raise(acc, children.id)
    ELSE IF children.elements # <<>> THEN Emit(acc, Summary(children.elements), children.id)
    ELSE Skip(acc, children.id)

\* the children put in front of what the loop has collected
FragmentBranchInFront(node, acc, children) ==
    IF children.raised THEN Raise(acc, children.id)
    ELSE [elements |-> children.elements \o acc.elements, id |-> children.id,
          raised |-> FALSE]

\* else: treat as fragments, elements.extend(children)
FragmentBranch(node, acc, children) ==
    IF children.raised THEN Raise(acc, children.id)
    ELSE IF children.elements # <<>>
    THEN [elements |-> acc.elements \o children.elements, id |-> children.id,
          raised |-> FALSE]
    ELSE Skip(acc, children.id)

RECURSIVE parse_children(_, _)
RECURSIVE Dispatch(_, _)
RECURSIVE ForEach(_, _)

\* One pass of the loop body: the if/elif chain over node.tag.
Dispatch(node, acc) ==
    IF node.tag = <<>> \/ node.tag = TagText THEN TextBranch(node, acc)
    ELSE IF node.tag = TagA
    THEN IF AnchorSkipped(node) THEN Skip(acc, acc.id)
         ELSE AnchorBranch(node, acc, parse_children(node, acc.id))
    ELSE IF node.tag = TagImg THEN ImageBranch(node, acc)
    ELSE IF node.tag = TagButton
    THEN ButtonBranch(node, acc, parse_children(node, acc.id))
    ELSE IF IsHeadingTag(node.tag)
    THEN HeadingBranch(node, acc, parse_children(node, acc.id))
    ELSE IF node.tag = TagP
    THEN ParagraphBranch(node, acc, parse_children(node, acc.id))
    ELSE IF node.tag = TagInput THEN InputBranch(node, acc)
    ELSE IF node.tag = TagSelect
    THEN SelectBranch(node, acc, parse_children(node, acc.id))
    ELSE IF node.tag = TagOption THEN OptionBranch(node, acc)
    ELSE IF node.tag = TagLabel
    THEN LabelBranch(node, acc, parse_children(node, acc.id))
    ELSE IF node.tag = TagDetails
    THEN DetailsBranch(node, acc, parse_children(node, acc.id))
    ELSE IF node.tag = TagSummary
    THEN SummaryBranch(node, acc, parse_children(node, acc.id))
    ELSE FragmentBranch(node, acc, parse_children(node, acc.id))

\* for node in root.iter(include_text=True): an exception ends the loop
ForEach(nodes, acc) ==
    IF nodes = <<>> \/ acc.raised THEN acc
    ELSE ForEach(Tail(nodes), Dispatch(Head(nodes), acc))

\* Parser.parse_children(root) with self.id = c on entry
parse_children(root, c) ==
    ForEach(root.kids, [elements |-> <<>>, id |-> c, raised |-> FALSE])

\* Parser.parse(html) with self.id = c on entry; doc is <<>> when the
\* document has no body and <<body>> otherwise.
parse(doc, c) ==
    IF doc = <<>> THEN [elements |-> <<>>, id |-> c, raised |-> FALSE]
    ELSE parse_children(doc[1], c)

(* ------------------------- the program's run -------------------------- *)

\* What a caller holds after parser.parse(html): nothing yet, the returned
\* list, or the ValueError that left parse.
NotCalled == [status |-> "none", elements |-> <<>>]
Returned(elements) == [status |-> "returned", elements |-> elements]
ValueError == [status |-> "ValueError", elements |-> <<>>]

\* parser.parse(html) on instance p (main.py: parser.parse(f.read())).
Call_parse(p) ==
    /\ calls[p] < MaxCalls
    /\ LET r == parse(html, id[p])
       IN  /\ id' = [id EXCEPT ![p] = r.id]
           /\ out' = [out EXCEPT ![p] = IF r.raised THEN ValueError
                                                     ELSE Returned(r.elements)]
    /\ calls' = [calls EXCEPT ![p] = @ + 1]
    /\ UNCHANGED html

Next == \E p \in Parsers : Call_parse(p)

(* --------------------------- the documents ---------------------------- *)

TagBody == <<98, 111, 100, 121>>                    \* "body"
TagDiv == <<100, 105, 118>>                         \* "div"
TagSpan == <<115, 112, 97, 110>>                    \* "span"

\* A node kind: a node without its children; leaf kinds never get any.
Elem(tag, attributes) == [tag |-> tag, attributes |-> attributes, text |-> "", leaf |-> FALSE]
Void(tag, attributes) == [tag |-> tag, attributes |-> attributes, text |-> "", leaf |-> TRUE]
TextNode(tag, text) == [tag |-> tag, attributes |-> {}, text |-> text, leaf |-> TRUE]
OptionNode(text) == [tag |-> TagOption, attributes |-> {}, text |-> text, leaf |-> TRUE]

Node(kind, kids) ==
    [tag |-> kind.tag, attributes |-> kind.attributes, text |-> kind.text, kids |-> kids]

\* The sibling lists of exactly n nodes in all, over the node kinds K.
RECURSIVE Forest(_, _)
Forest(K, n) ==
    IF n = 0 THEN {<<>>}
    ELSE UNION { LET below == Forest(K, a)
                     after == Forest(K, n - 1 - a)
                 IN  { <<Node(k, ks)>> \o rest :
                          k \in {k \in K : a = 0 \/ ~k.leaf},
                          ks \in below, rest \in after } :
                 a \in 0..(n - 1) }

\* The documents over K: one without body, and every body of at most
\* MaxNodes nodes.
Docs(K) ==
    {<<>>} \cup { <<Node(Elem(TagBody, {}), f)>> :
                     f \in UNION { Forest(K, n) : n \in 0..MaxNodes } }

\* Buttons, inputs, text and a transparent container.
KindsIds ==
    { Elem(TagButton, {}), Elem(TagDiv, {}), TextNode(TagText, "x"),
      Void(TagInput, {}), Void(TagInput, {<<"type", Str("checkbox")>>}) }

\* A run starts with a document over one of the families F of node kinds and
\* with the Parser instances just constructed.
InitOver(F) ==
    /\ html \in UNION { Docs(K) : K \in F }
    /\ id = [p \in Parsers |-> Parser_init(p)]
    /\ out = [p \in Parsers |-> NotCalled]
    /\ calls = [p \in Parsers |-> 0]

\* Images with and without src, a url input with a placeholder, a radio.
KindsVoid ==
    { Void(TagImg, {<<"src", Str("/i.png")>>, <<"alt", PyNone>>}), Void(TagImg, {}),
      Void(TagInput, {<<"type", Str("url")>>, <<"placeholder", Str("x")>>}),
      Void(TagInput, {<<"type", Str("radio")>>}) }

Init == InitOver({KindsIds, KindsVoid})

Spec == Init /\ [][Next]_vars

\* Headings (h2, h0, h with ARABIC-INDIC DIGIT THREE, h with SUPERSCRIPT
\* TWO), buttons and text.
KindsHeading ==
    { Elem(<<104, 50>>, {}), Elem(<<104, 48>>, {}), Elem(<<104, 1635>>, {}),
      Elem(<<104, 178>>, {}), Elem(TagButton, {}), TextNode(TagText, "x") }

InitHeading == InitOver({KindsHeading})

SpecHeading == InitHeading /\ [][Next]_vars

\* The tags whose element is dropped when its children classify to nothing:
\* a (with href), button, h1, h9, p, label, details, summary, select.
WrapperKinds ==
    { Elem(TagA, {<<"href", Str("/x")>>}), Elem(TagButton, {}),
      Elem(<<104, 49>>, {}), Elem(<<104, 57>>, {}), Elem(TagP, {}),
      Elem(TagLabel, {}), Elem(TagDetails, {}), Elem(TagSummary, {}),
      Elem(TagSelect, {}) }

\* Each wrapper over empty and non-empty text; and buttons and selects over
\* options and an input that produces nothing.
FamiliesWrap ==
    { {w, TextNode(TagText, ""), TextNode(<<>>, "x")} : w \in WrapperKinds }
    \cup { { Elem(TagButton, {}), Elem(TagSelect, {}), OptionNode(""),
             OptionNode("x"), Void(TagInput, {<<"type", Str("range")>>}) } }

InitWrap == InitOver(FamiliesWrap)

SpecWrap == InitWrap /\ [][Next]_vars

\* An attribute in one of its states: absent (<<>>) or present with a value.
With(key, state) == IF state = <<>> THEN {} ELSE {<<key, state[1]>>}

\* href absent, valueless, or empty.
HrefStates == {<<>>, <<PyNone>>, <<Str("")>>}

\* Anchors whose href is in one state, over buttons, inputs and text; and
\* anchors without href beside anchors with one.
FamiliesAnchor ==
    { { Elem(TagA, With("href", h)), Elem(TagButton, {}),
        Void(TagInput, {}), TextNode(TagText, "x") } : h \in HrefStates }
    \cup { { Elem(TagA, {}), Elem(TagA, {<<"href", Str("/x")>>}),
             Void(TagInput, {}), TextNode(TagText, "x") } }

InitAnchor == InitOver(FamiliesAnchor)

SpecAnchor == InitAnchor /\ [][Next]_vars

\* checked / multiple absent, valueless, or set to a string.
BoolStates ==
    {<<>>, <<PyNone>>, <<Str("")>>, <<Str("true")>>, <<Str("false")>>, <<Str("0")>>,
     <<Str("checked")>>}

\* Checkboxes, radios and selects whose boolean attribute is in one state.
FamiliesAttr ==
    { { Void(TagInput, {<<"type", Str("checkbox")>>} \cup With("checked", b)),
        Void(TagInput, {<<"type", Str("radio")>>} \cup With("checked", b)),
        Elem(TagSelect, With("multiple", b)),
        OptionNode("x") } : b \in BoolStates }

InitAttr == InitOver(FamiliesAttr)

SpecAttr == InitAttr /\ [][Next]_vars

\* Unrecognized containers (div, span) around paragraphs, inputs and text.
KindsFlat ==
    { Elem(TagDiv, {}), Elem(TagSpan, {}), Elem(TagP, {}), Void(TagInput, {}),
      TextNode(TagText, "x") }

InitFlat == InitOver({KindsFlat})

SpecFlat == InitFlat /\ [][Next]_vars

(* ------------------------ reading the output -------------------------- *)

HasId(e) == e.type \in {"Button", "TextInput", "UrlInput", "CheckboxInput", "RadioInput"}

HasInner(e) ==
    e.type \in {"Anchor", "Button", "Heading", "Paragraph", "Label", "Select",
                "Details", "Summary"}

\* The ids of a list of elements in document pre-order: an element before
\* the elements of its inner list, siblings left to right.
RECURSIVE PreorderIds(_)
PreorderIds(es) ==
    IF es = <<>> THEN <<>>
    ELSE (IF HasId(Head(es)) THEN <<Head(es).id>> ELSE <<>>)
         \o (IF HasInner(Head(es)) THEN PreorderIds(Head(es).inner) ELSE <<>>)
         \o PreorderIds(Tail(es))

\* Every element of a list of elements, at any depth.
RECURSIVE AllElements(_)
AllElements(es) ==
    IF es = <<>> THEN {}
    ELSE {Head(es)}
         \cup (IF HasInner(Head(es)) THEN AllElements(Head(es).inner) ELSE {})
         \cup AllElements(Tail(es))

\* Every node of a list of nodes, at any depth.
RECURSIVE AllNodes(_)
AllNodes(ns) ==
    IF ns = <<>> THEN {}
    ELSE {Head(ns)} \cup AllNodes(Head(ns).kids) \cup AllNodes(Tail(ns))

\* The nodes below the body of the document.
Nodes == IF html = <<>> THEN {} ELSE AllNodes(html[1].kids)

StrictlyIncreasing(s) == \A i \in 1..(Len(s) - 1) : s[i] < s[i + 1]

Range(s) == { s[i] : i \in 1..Len(s) }

\* The state parse_children starts a loop in, with self.id = c.
Fresh(c) == [elements |-> <<>>, id |-> c, raised |-> FALSE]

\* The counter the last call on p started from, when that call returned.
StartOf(p) == id[p] - Len(PreorderIds(out[p].elements))

(* ------------------------------ C1 ------------------------------------ *)

\* C1: in the output of one parse call on a fresh Parser, the ids of the
\* id-carrying elements listed in document pre-order are strictly
\* increasing, also when a button contains inputs or other buttons.
C1_PreorderIdsIncrease ==
    \A p \in Parsers :
        (calls[p] = 1 /\ out[p].status = "returned")
            => StrictlyIncreasing(PreorderIds(out[p].elements))

(* ------------------------------ C2 ------------------------------------ *)

\* C2: every parse call starts a fresh id space: whenever a call returned
\* elements that carry ids, the first (smallest) id it assigned is 0, also
\* for a later call on the same Parser instance.
C2_EveryCallStartsAtZero ==
    \A p \in Parsers :
        (out[p].status = "returned" /\ PreorderIds(out[p].elements) # <<>>)
            => 0 \in Range(PreorderIds(out[p].elements))

(* ------------------------------ C3 ------------------------------------ *)

\* a (with href), button, h1..h9, p, label, details, summary, select
IsWrapperNode(n) ==
    \/ n.tag = TagA /\ Truthy(Get(n.attributes, "href", PyNone))
    \/ n.tag \in {TagButton, TagP, TagLabel, TagDetails, TagSummary, TagSelect}
    \/ Len(n.tag) = 2 /\ n.tag[1] = 104 /\ n.tag[2] \in 49..57

\* C3: a wrapper node (a with href, button, h1..h9, p, label, details,
\* summary, select) whose children classify to the empty list adds no
\* element and leaves the id counter as it was; and so no wrapper element
\* anywhere in an output has an empty inner list and no Text or Option has
\* empty text.
C3_EmptyWrappersOmitted ==
    /\ \A n \in Nodes : \A c \in Range(id) :
          (/\ IsWrapperNode(n)
           /\ parse_children(n, c).elements = <<>>
           /\ ~parse_children(n, c).raised)
              => Dispatch(n, Fresh(c)) = Fresh(c)
    /\ \A p \in Parsers : \A e \in AllElements(out[p].elements) :
          /\ HasInner(e) => e.inner # <<>>
          /\ e.type = "Text" => e.content # ""
          /\ e.type = "Option" => e.text # ""

\* A button that has children, all classifying to nothing, was parsed next
\* to content that was kept.
C3_Witness ==
    /\ \E n \in Nodes :
          n.tag = TagButton /\ n.kids # <<>> /\ parse_children(n, 0) = Fresh(0)
    /\ calls[1] = 1
    /\ out[1].status = "returned"
    /\ out[1].elements # <<>>

(* ------------------------------ C4 ------------------------------------ *)

\* an a node whose href is absent, valueless or empty
NoHref(n) ==
    /\ n.tag = TagA
    /\ \/ ~HasKey(n.attributes, "href")
       \/ Item(n.attributes, "href") \in {PyNone, Str("")}

\* A list of nodes without its href-less a nodes (and so their subtrees).
RECURSIVE Prune(_)
Prune(ns) ==
    IF ns = <<>> THEN <<>>
    ELSE (IF NoHref(Head(ns)) THEN <<>>
          ELSE <<[Head(ns) EXCEPT !.kids = Prune(Head(ns).kids)]>>)
         \o Prune(Tail(ns))

\* C4: an a node without href (absent, valueless or empty) adds no element,
\* neither an Anchor nor anything from its subtree, and leaves the id
\* counter unchanged even with buttons and inputs below it: the node alone
\* changes nothing, and the output and counter of a call are those of the
\* document with every such subtree cut out.
C4_AnchorWithoutHrefSkipped ==
    /\ \A n \in Nodes : \A c \in Range(id) :
          NoHref(n) => Dispatch(n, Fresh(c)) = Fresh(c)
    /\ \A p \in Parsers :
          (out[p].status = "returned" /\ html # <<>>)
              => parse_children([html[1] EXCEPT !.kids = Prune(@)], StartOf(p))
                   = [elements |-> out[p].elements, id |-> id[p], raised |-> FALSE]

\* An href-less a with controls below it was parsed, next to a control
\* outside it.
C4_Witness ==
    /\ \E n \in Nodes : NoHref(n) /\ parse_children([n EXCEPT !.tag = TagDiv], 0).id > 0
    /\ calls[1] = 1
    /\ out[1].status = "returned"
    /\ id[1] > 0

(* ------------------------------ C5 ------------------------------------ *)

\* The reference rule: key absent gives false; key present with "true",
\* the empty string or no value gives true; any other string gives false.
RefBool(attributes, key) ==
    /\ HasKey(attributes, key)
    /\ Item(attributes, key) \in {Str("true"), Str(""), PyNone}

\* The state of an attribute: <<>> when absent, <<value>> when present.
StateOf(attributes, key) ==
    IF HasKey(attributes, key) THEN <<Item(attributes, key)>> ELSE <<>>

\* The three copies give one answer for an attribute in state b.
CopiesAgree(b) ==
    /\ CheckboxChecked(With("checked", b)) = RadioChecked(With("checked", b))
    /\ CheckboxChecked(With("checked", b)) = SelectMultiple(With("multiple", b))

IsInputOfType(n, type_) ==
    n.tag = TagInput /\ Get(n.attributes, "type", Str("text")) = Str(type_)

\* C5: checked (checkbox, radio) and multiple (non-empty select) follow the
\* reference rule in every attribute state, the three copies of the rule
\* agree, and the booleans in the output are those the rule gives for the
\* nodes of the document (whose checkboxes, radios and selects each carry
\* their attribute in one state).
C5_BooleanAttributeRule ==
    /\ \A n \in Nodes :
          /\ CheckboxChecked(n.attributes) = RefBool(n.attributes, "checked")
          /\ RadioChecked(n.attributes) = RefBool(n.attributes, "checked")
          /\ SelectMultiple(n.attributes) = RefBool(n.attributes, "multiple")
          /\ CopiesAgree(StateOf(n.attributes, "checked"))
          /\ CopiesAgree(StateOf(n.attributes, "multiple"))
    /\ \A p \in Parsers : \A e \in AllElements(out[p].elements) :
          /\ e.type = "CheckboxInput" =>
                \A n \in Nodes : IsInputOfType(n, "checkbox")
                                    => e.checked = RefBool(n.attributes, "checked")
          /\ e.type = "RadioInput" =>
                \A n \in Nodes : IsInputOfType(n, "radio")
                                    => e.checked = RefBool(n.attributes, "checked")
          /\ e.type = "Select" =>
                \A n \in Nodes : n.tag = TagSelect
                                    => e.multiple = RefBool(n.attributes, "multiple")

\* A radio whose checked attribute is present with a string that is neither
\* "true" nor empty came out unchecked, beside a select that was kept.
C5_Witness ==
    /\ \E n \in Nodes :
          /\ IsInputOfType(n, "radio")
          /\ HasKey(n.attributes, "checked")
          /\ Truthy(Item(n.attributes, "checked"))
          /\ Item(n.attributes, "checked") # Str("true")
    /\ \E e \in AllElements(out[1].elements) : e.type = "RadioInput" /\ ~e.checked
    /\ \E e \in AllElements(out[1].elements) : e.type = "Select" /\ ~e.multiple

(* ------------------------------ C6 ------------------------------------ *)

\* C6: parse_children raises no error, whatever the tag names: no parse
\* call ends in an exception.
C6_NoErrorRaised == \A p \in Parsers : out[p].status # "ValueError"

(* ------------------------------ C7 ------------------------------------ *)

\* C7: every Heading in the output of parse has its level in 1..9.
C7_HeadingLevelInRange ==
    \A p \in Parsers :
        \A e \in AllElements(out[p].elements) :
            e.type = "Heading" => e.level \in 1..9

(* ------------------------------ C8 ------------------------------------ *)

Recognized(tag) ==
    \/ tag \in {<<>>, TagText, TagA, TagImg, TagButton, TagP, TagInput, TagSelect,
                TagOption, TagLabel, TagDetails, TagSummary}
    \/ IsHeadingTag(tag)

\* A list of nodes with every unrecognized node replaced, at its position,
\* by its (flattened) children.
RECURSIVE Flatten(_)
Flatten(ns) ==
    IF ns = <<>> THEN <<>>
    ELSE (IF Recognized(Head(ns).tag)
          THEN <<[Head(ns) EXCEPT !.kids = Flatten(Head(ns).kids)]>>
          ELSE Flatten(Head(ns).kids))
         \o Flatten(Tail(ns))

\* C9: a node with an unrecognized tag adds no element of its own and its
\* children's elements take its place, in order, at every depth: the output
\* and counter of a call are those of the document with every unrecognized
\* node replaced by its children.
C9_UnrecognizedTagsSpliced ==
    \A p \in Parsers :
        (out[p].status = "returned" /\ html # <<>>)
            => parse_children([html[1] EXCEPT !.kids = Flatten(@)], StartOf(p))
                 = [elements |-> out[p].elements, id |-> id[p], raised |-> FALSE]

\* An unrecognized node whose children produce elements was parsed after a
\* sibling that produced one too.
C9_Witness ==
    /\ html # <<>>
    /\ \E i \in 2..Len(html[1].kids) :
          /\ ~Recognized(html[1].kids[i].tag)
          /\ parse_children(html[1].kids[i], 0).elements # <<>>
          /\ parse_children([html[1] EXCEPT !.kids = <<html[1].kids[1]>>], 0).elements # <<>>
    /\ calls[1] = 1
    /\ out[1].status = "returned"

(* ------------------------------ C10 ----------------------------------- *)

\* C10: ids are never lost or duplicated: each parse call advances the
\* counter by exactly the number of id-carrying elements in the tree it
\* hands back (so the counter is always the total over all returned trees),
\* those elements carry exactly the values from the old counter up to the
\* new one, each once, and the counter never decreases.
C10_NoIdLost ==
    [][\A p \in Parsers :
          calls'[p] # calls[p] =>
              /\ id'[p] = id[p] + Len(PreorderIds(out'[p].elements))
              /\ Range(PreorderIds(out'[p].elements)) = id[p]..(id'[p] - 1)
              /\ id'[p] >= id[p]]_vars

====
